---- MODULE Spec2Model ----
(***************************************************************************)
(* axum-htmx: the auto-vary middleware (src/src/auto_vary.rs), the         *)
(* notifiers it installs into the request extensions and the tracked       *)
(* extractors (src/src/extractors.rs) that fire them.                      *)
(*                                                                         *)
(* One request is a record of the variables below indexed by a request     *)
(* slot.  The http::Extensions of a request may be cloned (every notifier  *)
(* derives Clone and holds an Arc<Sender<()>>), so the storage of a        *)
(* request is a family of copies: copy 0 is the Extensions of the request  *)
(* Parts, the others are clones made by the inner service.  The inner      *)
(* service owns the request: when its future completes the copies it still *)
(* owns are dropped with it, the ones it moved elsewhere (the response     *)
(* extensions, a spawned task) stay alive.                                 *)
(*                                                                         *)
(* A step of the middleware future is one poll: it runs from one           *)
(* suspension point (future.await, join_all) to the next.                  *)
(*                                                                         *)
(* The module also covers the HxRequestGuard service (src/src/guard.rs),   *)
(* whose requests use the same request slots, and the responders of        *)
(* src/src/responders (trigger.rs, vary.rs, location.rs), which a handler  *)
(* applies one after the other to the ResponseParts res.  Each of these    *)
(* has a specification of its own over the same variables.                 *)
(***************************************************************************)
EXTENDS Integers, Sequences, FiniteSets, TLC

\* ---------------------------------------------------------------- bounds
MaxLayers == 2      \* how many times AutoVaryLayer may be applied
MaxCopies == 1      \* clones of the request extensions alive at once
MaxEvents == 2      \* events given to one trigger responder

\* ------------------------------------------------------------- constants
\* The four tracked header kinds, in the order of rx_header.
Kinds == 1 .. 4

Canonical == <<1, 2, 3, 4>>

HeaderStr == <<"hx-request", "hx-target", "hx-trigger", "hx-trigger-name">>

Reqs == {"A", "B"}

\* The slot that takes every request when requests are handled one at a time.
First == "A"

Copies == 0 .. MaxCopies

\* A slot of one copy of the storage, for one notifier type:
\*   "absent"  no value of that type in the Extensions
\*   "some"    $name(Some(Arc<Sender>))
\*   "none"    $name(None), the Arc was taken by sender()
\*   "gone"    the copy itself does not exist (never made, or dropped)
NoWriters == [k \in Kinds |-> "absent"]
Inserted  == [k \in Kinds |-> "some"]
Dropped   == [k \in Kinds |-> "gone"]

IsLive(copy) == copy # Dropped

\* Vary values the inner handler may put on its own response.
HandlerVaries == { <<>>, <<"accept-encoding", "hx-request">> }

NoResponse == [kind |-> "none", status |-> 0, vary |-> <<>>, full |-> FALSE]

\* A request header is absent, holds visible ASCII text (to_str succeeds) or
\* holds bytes that to_str rejects.
HeaderStates == {"absent", "text", "opaque"}

\* The text of each header when it holds text, indexed as HeaderStr.
HeaderText == <<"true", "#list", "save-button", "save">>

RequestHeaders == [Kinds -> HeaderStates]

\* A request made by htmx from a named element with an id and a target.
HtmxRequest == [k \in Kinds |-> "text"]

NoHeaders == [k \in Kinds |-> "absent"]

\* The extractors: the four tracked ones of extractors.rs, indexed as
\* HeaderStr, the HxRequest of request.rs, and the four of extractors.rs
\* that the middleware does not track.
RequestRs == 5

Untracked == 6 .. 9

Extractors == Kinds \cup {RequestRs} \cup Untracked

ExtractorName ==
    <<"HxRequest", "HxTarget", "HxTrigger", "HxTriggerName", "HxRequest",
      "HxBoosted", "HxCurrentUrl", "HxHistoryRestoreRequest", "HxPrompt">>

\* The text of HX-Current-URL and of HX-Prompt when they hold text; the
\* first parses as an http::Uri.
UntrackedText == [x \in Untracked |-> IF x = 7 THEN "https://example.com/list" ELSE "yes"]

NotExtracted == [x \in Extractors |-> ""]

\* HxRequestGuard before HxRequestGuardLayer::layer made one.
NoGuard == [installed |-> FALSE, redirect_to |-> "", hx_request |-> FALSE]

\* HxRequestGuardLayer::default() and HxRequestGuardLayer::new("/login")
RedirectTargets == {"/", "/login"}

NoFuture == [pending |-> FALSE, hx_request |-> FALSE, redirect_to |-> ""]

\* A response header that was never inserted.
Unset == "(unset)"

\* ResponseParts of a response with no headers.  base and by are not part of
\* the response: base is the Vary occurrences it had before any responder,
\* by the Vary responders applied to it since.
NoParts ==
    [hx_trigger |-> Unset, hx_trigger_after_settle |-> Unset,
     hx_trigger_after_swap |-> Unset, hx_location |-> Unset,
     vary |-> <<>>, full |-> FALSE, err |-> FALSE, base |-> <<>>, by |-> {}]

NoResponder == [op |-> "none"]

\* HxEvent: a name and Option<serde_json::Value>, the value as JSON text.
EventNames == {"foo", "bar"}

EventData == {"None", "null", "1"}

Events == [name : EventNames, data : EventData]

EventLists == UNION {[1 .. n -> Events] : n \in 0 .. MaxEvents}

\* LocationOptions: the fields in declaration order, and the JSON text of
\* the value each holds when it is set.
OptionFields == <<"source", "event", "handler", "target", "swap", "values", "headers">>

OptionJson ==
    [source |-> "\"#form\"", event |-> "\"click\"", handler |-> "\"onLoad\"",
     target |-> "\"#main\"", swap |-> "\"innerHTML\"", values |-> "{\"id\":1}",
     headers |-> "{\"x-flag\":\"1\"}"]

LocationOptions == [{OptionFields[i] : i \in DOMAIN OptionFields} -> BOOLEAN]

Uris == {"/foo", "/bar?page=2"}

\* Types that are none of the notifiers and whose values axum or a layer
\* outside the middleware put into the request extensions.
Unrelated == {"MatchedPath", "OriginalUri"}

\* Requests that differ in their HX-Request header only.
GuardRequests == {[NoHeaders EXCEPT ![1] = s] : s \in HeaderStates}

VARIABLES
    layers,     \* number of AutoVaryLayer applied to the router
    serving,    \* the router is built and serves requests
    conc,       \* requests are handled concurrently (TRUE) or one at a time
    pc,         \* [Reqs -> phase of the request]
    ext,        \* [Reqs -> [Copies -> [Kinds -> slot]]]
    chan,       \* [Reqs -> [Kinds -> state of the oneshot channel]]
    ran,        \* [Reqs -> kinds whose extractor ran at least once]
    again,      \* [Reqs -> some extractor ran more than once]
    hresp,      \* [Reqs -> response produced by the inner service]
    observed,   \* [Reqs -> kinds whose receiver has resolved]
    result,     \* [Reqs -> what the middleware future returned]
    hdrs,       \* [Reqs -> [Kinds -> state of the request header]]
    got,        \* [Reqs -> [Extractors -> value the extractor returned last]]
    guard,      \* the HxRequestGuard service instance
    fut,        \* [Reqs -> the ResponseFuture of the guard]
    res,        \* the ResponseParts a handler's responders are applied to
    last,       \* the responder applied last to res, with its input
    other       \* [Reqs -> unrelated types with a value in the extensions]

\* Variables the request path of the auto-vary middleware leaves alone.
sideVars == <<guard, fut, res, last>>

reqVars == <<hdrs, got, other>>

vars == <<layers, serving, conc, pc, ext, chan, ran, again, hresp, observed, result,
          hdrs, got, guard, fut, res, last, other>>

\* ------------------------------------------------------ pure operators

\* Arc::strong_count of the Sender of kind k over the copies e.
ArcCount(e, k) == Cardinality({c \in Copies : e[c][k] = "some"})

\* define_notifiers::sender: self.0.take().and_then(Arc::into_inner)
\* yields the Sender only when this copy holds the last reference.
SenderTaken(e, c, k) == e[c][k] = "some" /\ ArcCount(e, k) = 1

\* Variant: get_or_insert in place of get_mut, which leaves a notifier
\* behind where the middleware installed none.
TakeSlotOrInsert(e, c, k) ==
    [e EXCEPT ![c][k] = IF @ \in {"some", "absent"} THEN "none" ELSE @]

\* The storage after sender(): the Option of this copy is taken.
TakeSlot(e, c, k) == [e EXCEPT ![c][k] = IF @ = "some" THEN "none" ELSE @]

\* Variant: every copy that still holds its Arc sends.
NotifyFromAnyCopy(ch, e, c, k) ==
    IF e[c][k] = "some" /\ ch[k] = "armed"
    THEN [ch EXCEPT ![k] = "sent"]
    ELSE ch

\* Notifier::notify on the channels of one request: send(()).ok()
NotifyChan(ch, e, c, k) ==
    IF SenderTaken(e, c, k) /\ ch[k] = "armed"
    THEN [ch EXCEPT ![k] = "sent"]
    ELSE ch

\* Variant: one set of senders kept by the service for all its requests.
NotifyShared(chs, r, e, c, k) == [q \in Reqs |-> NotifyChan(chs[q], e, c, k)]

\* The channels of every request after the extractor of kind k ran for
\* request r: get_mut on the extensions of r, then notify.
Notify(chs, r, e, c, k) == [chs EXCEPT ![r] = NotifyChan(@, e, c, k)]

\* Dropping the copies in cs: a Sender whose last Arc goes away without a
\* send closes its channel.
DropExt(e, cs) == [c \in Copies |-> IF c \in cs THEN Dropped ELSE e[c]]

DropChan(ch, e, cs) ==
    [k \in Kinds |->
        IF ch[k] = "armed" /\ ArcCount(e, k) > 0 /\ ArcCount(DropExt(e, cs), k) = 0
        THEN "closed" ELSE ch[k]]

\* parts.headers.get(name), then to_str: Some(text) or None.
OptionOf(h, k) == IF h[k] = "text" THEN "Some(" \o HeaderText[k] \o ")" ELSE "None"

\* Variant: the extractor gives up when notify found no sender to take.
ExtractedIfNotified(slot, h, k) ==
    IF slot = "none" THEN ExtractorName[k] \o (IF k = 1 THEN "(false)" ELSE "(None)")
    ELSE IF k = 1
    THEN (IF h[1] # "absent" THEN "HxRequest(true)" ELSE "HxRequest(false)")
    ELSE ExtractorName[k] \o "(" \o OptionOf(h, k) \o ")"

\* What a tracked extractor returns on headers h once get_mut(..).map(notify)
\* is done; slot is what get_mut found, and the result of the map is dropped.
Extracted(slot, h, k) ==
    IF k = 1
    THEN (IF h[1] # "absent" THEN "HxRequest(true)" ELSE "HxRequest(false)")
    ELSE ExtractorName[k] \o "(" \o OptionOf(h, k) \o ")"

\* What an untracked extractor returns when its header is in state s:
\* contains_key for HxBoosted and HxHistoryRestoreRequest, get and to_str
\* (and parse for HxCurrentUrl) for the other two.
UntrackedExtracted(s, x) ==
    IF x \in {6, 8}
    THEN ExtractorName[x] \o (IF s # "absent" THEN "(true)" ELSE "(false)")
    ELSE ExtractorName[x]
         \o (IF s = "text" THEN "(Some(" \o UntrackedText[x] \o "))" ELSE "(None)")

\* Variant: an untracked extractor notifies like a tracked one, on the cell
\* in the same position.
UntrackedNotifyAsTracked(ch, e, x) == NotifyChan(ch, e, 0, x - 5)

\* The channels of a request after an untracked extractor ran: it reads
\* parts.headers and never looks at parts.extensions.
UntrackedNotify(ch, e, x) == ch

\* request.rs, HxRequest::from_request_parts: the Parts are not looked at.
RequestRsExtracted(h) == "HxRequest(true)"

\* ResponseFuture::poll, the response built when hx_request is false.
Redirect(p) ==
    [kind |-> "response", status |-> 303, vary |-> <<>>, full |-> FALSE, location |-> p]

\* Variant: the guard goes by whether the extensions hold anything at all.
SlotsFoundByCount(others) ==
    IF others = {} THEN NoWriters ELSE [k \in Kinds |-> "some"]

\* What Extensions::insert::<$name> finds under the notifier types in
\* extensions that hold values of the types in others: the map is keyed by
\* TypeId and no other type shares a notifier's key.
SlotsFound(others) == NoWriters

\* Variant: insert overwrites the previous notifier without looking at it.
InsertOverwrites(slots) == FALSE

\* Notifier::insert: extensions.insert(..).is_some() panics.
InsertPanics(slots) == \E k \in Kinds : slots[k] # "absent"

\* Variant: only the outermost middleware installs and checks.
EnterOuterOnly(slots, n) ==
    IF n = 0 THEN [panicked |-> FALSE, slots |-> slots]
    ELSE [panicked |-> InsertPanics(slots), slots |-> Inserted]

\* Variant: call() installs nothing, the cells are left for later.
EnterLazy(slots, n) == [panicked |-> FALSE, slots |-> slots]

\* The nested call()s of n AutoVaryMiddleware around the inner service.
RECURSIVE Enter(_, _)
Enter(slots, n) ==
    IF n = 0 THEN [panicked |-> FALSE, slots |-> slots]
    ELSE IF InsertPanics(slots) THEN [panicked |-> TRUE, slots |-> slots]
    ELSE Enter(Inserted, n - 1)

\* used_headers.join(", ")
RECURSIVE Join(_)
Join(s) ==
    IF Len(s) = 0 THEN ""
    ELSE IF Len(s) = 1 THEN s[1]
    ELSE s[1] \o ", " \o Join(Tail(s))

\* join_all(rx_header ...).flatten(): the headers whose receiver got Ok(()),
\* in the order of rx_header.
RECURSIVE UsedFrom(_, _)
UsedFrom(ch, i) ==
    IF i > Len(Canonical) THEN <<>>
    ELSE (IF ch[Canonical[i]] = "sent" THEN <<HeaderStr[Canonical[i]]>> ELSE <<>>)
         \o UsedFrom(ch, i + 1)

UsedHeaders(ch) == UsedFrom(ch, 1)

\* HxError::into_response
ErrorResponse == [kind |-> "response", status |-> 500, vary |-> <<>>, full |-> FALSE]

\* Variant: the value is appended without the is_empty test.
MergeAlways(resp, ch) ==
    IF resp.full THEN ErrorResponse
    ELSE [resp EXCEPT !.vary = Append(@, Join(UsedHeaders(ch)))]

\* Variant: insert in place of try_append, which replaces the Vary values.
MergeInsert(resp, ch) ==
    IF UsedHeaders(ch) = <<>> THEN resp
    ELSE IF resp.full THEN ErrorResponse
    ELSE [resp EXCEPT !.vary = <<Join(UsedHeaders(ch))>>]

\* Variant: a failed append is swallowed and the response goes out as the
\* handler made it.
MergeFailOpen(resp, ch) ==
    IF UsedHeaders(ch) = <<>> THEN resp
    ELSE IF resp.full THEN resp
    ELSE [resp EXCEPT !.vary = Append(@, Join(UsedHeaders(ch)))]

\* Variant: a name that an occurrence on the response already gives is left
\* out of the computed value.
MergeDeduplicated(resp, ch) ==
    LET present == {resp.vary[i] : i \in DOMAIN resp.vary}
        fresh   == SelectSeq(UsedHeaders(ch), LAMBDA n : n \notin present)
    IN IF fresh = <<>> THEN resp
       ELSE IF resp.full THEN ErrorResponse
       ELSE [resp EXCEPT !.vary = Append(@, Join(fresh))]

\* The tail of the middleware future once every receiver has resolved.
Merge(resp, ch) ==
    IF UsedHeaders(ch) = <<>> THEN resp
    ELSE IF resp.full THEN ErrorResponse
    ELSE [resp EXCEPT !.vary = Append(@, Join(UsedHeaders(ch)))]

\* One poll of join_all: every receiver that is not pending resolves.
Resolved(ch) == {k \in Kinds : ch[k] \in {"sent", "closed"}}

\* The distinct names of a list of events, and the orders a HashMap keyed by
\* them may be iterated in.
NamesIn(events) == {events[i].name : i \in DOMAIN events}

Orders(S) ==
    {p \in [1 .. Cardinality(S) -> S] : \A i, j \in DOMAIN p : i # j => p[i] # p[j]}

\* collect::<HashMap<String, Value>>(): a later event replaces an earlier one
\* of the same name; unwrap_or_default turns no data into Value::Null.
Collected(events, n) ==
    LET i == CHOOSE i \in DOMAIN events :
                 /\ events[i].name = n
                 /\ \A j \in DOMAIN events : j > i => events[j].name # n
    IN IF events[i].data = "None" THEN "null" ELSE events[i].data

\* serde_json::to_string of the map, its entries in the order keys.
RECURSIVE SerializeMap(_, _)
SerializeMap(events, keys) ==
    IF Len(keys) = 0 THEN ""
    ELSE "\"" \o keys[1] \o "\":" \o Collected(events, keys[1])
         \o (IF Len(keys) > 1 THEN "," ELSE "")
         \o SerializeMap(events, Tail(keys))

\* Variant: the encoding is chosen by the first event alone.
events_to_header_value_first(events, order) ==
    IF Len(events) > 0 /\ events[1].data # "None"
    THEN "{" \o SerializeMap(events, order) \o "}"
    ELSE Join([i \in DOMAIN events |-> events[i].name])

\* events_to_header_value (serde): order is the iteration order of the map.
events_to_header_value(events, order) ==
    IF \E i \in DOMAIN events : events[i].data # "None"
    THEN "{" \o SerializeMap(events, order) \o "}"
    ELSE Join([i \in DOMAIN events |-> events[i].name])

\* HeaderMap::insert under the key of a response header.
InsertHeader(parts, name, value) == [parts EXCEPT ![name] = value]

\* The into_response_parts of the three trigger responders of trigger.rs:
\* each one inserts under headers::HX_TRIGGER when its list is not empty.
TriggerInto(parts, events, order) ==
    IF events # <<>>
    THEN InsertHeader(parts, "hx_trigger", events_to_header_value(events, order))
    ELSE parts

\* HxError::into_response as seen by a handler returning (parts.., body):
\* the responders applied so far are lost with the response.
ErrorParts(parts) == [NoParts EXCEPT !.err = TRUE, !.base = parts.base, !.by = parts.by]

\* Variant: the Vary responder inserts, replacing the occurrences present.
InsertVary(parts, k) ==
    IF parts.full THEN ErrorParts([parts EXCEPT !.by = @ \cup {k}])
    ELSE [parts EXCEPT !.vary = <<HeaderStr[k]>>, !.by = @ \cup {k}]

\* res.headers_mut().try_append(VARY, ..)? of the four Vary responders.
TryAppendVary(parts, k) ==
    IF parts.full THEN ErrorParts([parts EXCEPT !.by = @ \cup {k}])
    ELSE [parts EXCEPT !.vary = Append(@, HeaderStr[k]), !.by = @ \cup {k}]

\* LocationOptions::is_default
is_default(options) == \A f \in DOMAIN options : ~options[f]

\* Variant: Option fields serialized without skip_serializing_if.
SerializeOptionOrNull(options, f) ==
    ",\"" \o f \o "\":" \o (IF options[f] THEN OptionJson[f] ELSE "null")

\* One field of LocationOptions under skip_serializing_if = Option::is_none.
SerializeOption(options, f) ==
    IF options[f] THEN ",\"" \o f \o "\":" \o OptionJson[f] ELSE ""

RECURSIVE SerializeOptions(_, _)
SerializeOptions(options, i) ==
    IF i > Len(OptionFields) THEN ""
    ELSE SerializeOption(options, OptionFields[i]) \o SerializeOptions(options, i + 1)

\* HxLocation::into_header_with_options
into_header_with_options(uri, options) ==
    IF is_default(options) THEN uri
    ELSE "{\"path\":\"" \o uri \o "\"" \o SerializeOptions(options, 1) \o "}"

\* ------------------------------------------------------------ initial
InitCommon ==
    /\ layers = 0
    /\ serving = FALSE
    /\ pc = [r \in Reqs |-> "idle"]
    /\ ext = [r \in Reqs |-> [c \in Copies |-> Dropped]]
    /\ chan = [r \in Reqs |-> [k \in Kinds |-> "none"]]
    /\ ran = [r \in Reqs |-> {}]
    /\ again = [r \in Reqs |-> FALSE]
    /\ hresp = [r \in Reqs |-> NoResponse]
    /\ observed = [r \in Reqs |-> {}]
    /\ result = [r \in Reqs |-> NoResponse]
    /\ hdrs = [r \in Reqs |-> NoHeaders]
    /\ got = [r \in Reqs |-> NotExtracted]
    /\ fut = [r \in Reqs |-> NoFuture]
    /\ guard = NoGuard
    /\ res = NoParts
    /\ last = NoResponder
    /\ other = [r \in Reqs |-> {}]

Init == InitCommon /\ conc = FALSE

InitConc == InitCommon /\ conc = TRUE

\* ------------------------------------------------------------ actions

\* AutoVaryLayer::layer, while the router is being built.
Layer ==
    /\ ~serving
    /\ layers < MaxLayers
    /\ layers' = layers + 1
    /\ UNCHANGED <<serving, conc, pc, ext, chan, ran, again, hresp, observed, result>>
    /\ UNCHANGED <<reqVars, sideVars>>

Serve ==
    /\ ~serving
    /\ serving' = TRUE
    /\ UNCHANGED <<layers, conc, pc, ext, chan, ran, again, hresp, observed, result>>
    /\ UNCHANGED <<reqVars, sideVars>>

\* A layer outside the middleware (or the router) inserts a value of the
\* unrelated type t into the extensions of the request it passes on.
InsertUnrelated(r, t) ==
    /\ serving
    /\ pc[r] = "idle"
    /\ conc \/ r = First
    /\ t \notin other[r]
    /\ other' = [other EXCEPT ![r] = @ \cup {t}]
    /\ UNCHANGED <<layers, serving, conc, pc, ext, chan, ran, again, hresp, observed, result>>
    /\ UNCHANGED <<hdrs, got, sideVars>>

\* AutoVaryMiddleware::call up to self.inner.call(request).
Call(r, h) ==
    /\ serving
    /\ pc[r] = "idle"
    /\ conc \/ r = First
    /\ hdrs' = [hdrs EXCEPT ![r] = h]
    /\ LET e == Enter(SlotsFound(other[r]), layers) IN
        IF e.panicked
        THEN /\ pc' = [pc EXCEPT ![r] = "panicked"]
             /\ UNCHANGED <<ext, chan>>
        ELSE /\ pc' = [pc EXCEPT ![r] = "dispatch"]
             /\ ext' = [ext EXCEPT ![r] = [c \in Copies |-> IF c = 0 THEN e.slots ELSE Dropped]]
             /\ chan' = [chan EXCEPT ![r] =
                            [k \in Kinds |-> IF e.slots[k] = "some" THEN "armed" ELSE "none"]]
    /\ UNCHANGED <<layers, serving, conc, ran, again, hresp, observed, result>>
    /\ UNCHANGED <<got, other, sideVars>>

\* A tracked extractor (HxRequest, HxTarget, HxTrigger, HxTriggerName) runs
\* on the Parts that hold copy c.
Extract(r, c, k) ==
    /\ pc[r] \in {"dispatch", "drain"}
    /\ IsLive(ext[r][c])
    /\ ext' = [ext EXCEPT ![r] = TakeSlot(@, c, k)]
    /\ chan' = Notify(chan, r, ext[r], c, k)
    /\ ran' = [ran EXCEPT ![r] = @ \cup {k}]
    /\ again' = [again EXCEPT ![r] = @ \/ k \in ran[r]]
    /\ got' = [got EXCEPT ![r][k] = Extracted(ext[r][c][k], hdrs[r], k)]
    /\ UNCHANGED <<layers, serving, conc, pc, hresp, observed, result>>
    /\ UNCHANGED <<hdrs, other, sideVars>>

\* The HxRequest extractor of request.rs runs on the Parts of the request.
ExtractRequestRs(r) ==
    /\ pc[r] = "dispatch"
    /\ IsLive(ext[r][0])
    /\ got' = [got EXCEPT ![r][RequestRs] = RequestRsExtracted(hdrs[r])]
    /\ UNCHANGED <<layers, serving, conc, pc, ext, chan, ran, again, hresp, observed, result>>
    /\ UNCHANGED <<hdrs, other, sideVars>>

\* HxBoosted, HxCurrentUrl, HxHistoryRestoreRequest or HxPrompt runs on the
\* Parts of the request, whose header is in state s; a later run of the same
\* extractor finds the header as the earlier one did.
ExtractUntracked(r, x, s) ==
    /\ pc[r] = "dispatch"
    /\ IsLive(ext[r][0])
    /\ got[r][x] \in {"", UntrackedExtracted(s, x)}
    /\ got' = [got EXCEPT ![r][x] = UntrackedExtracted(s, x)]
    /\ chan' = [chan EXCEPT ![r] = UntrackedNotify(@, ext[r], x)]
    /\ UNCHANGED <<layers, serving, conc, pc, ext, ran, again, hresp, observed, result>>
    /\ UNCHANGED <<hdrs, other, sideVars>>

\* Extensions::clone (or Parts::clone) by the inner service.
Clone(r, c, d) ==
    /\ ~conc
    /\ pc[r] = "dispatch"
    /\ IsLive(ext[r][c])
    /\ ~IsLive(ext[r][d])
    /\ ext' = [ext EXCEPT ![r][d] = ext[r][c]]
    /\ UNCHANGED <<layers, serving, conc, pc, chan, ran, again, hresp, observed, result>>
    /\ UNCHANGED <<reqVars, sideVars>>

\* A copy of the storage is dropped.
DropCopy(r, c) ==
    /\ pc[r] \in {"dispatch", "drain"}
    /\ IsLive(ext[r][c])
    /\ ext' = [ext EXCEPT ![r] = DropExt(@, {c})]
    /\ chan' = [chan EXCEPT ![r] = DropChan(@, ext[r], {c})]
    /\ UNCHANGED <<layers, serving, conc, pc, ran, again, hresp, observed, result>>
    /\ UNCHANGED <<reqVars, sideVars>>

\* The rest of the middleware future after a set of receivers resolved.
Continue(r, resp, ch) ==
    LET obs == Resolved(ch) IN
    /\ observed' = [observed EXCEPT ![r] = obs]
    /\ IF obs = Kinds
       THEN /\ pc' = [pc EXCEPT ![r] = "done"]
            /\ result' = [result EXCEPT ![r] = Merge(resp, ch)]
       ELSE /\ pc' = [pc EXCEPT ![r] = "drain"]
            /\ UNCHANGED result

\* future.await yields Ok(response): the inner future is dropped with every
\* copy it owns, the copies in keep were moved out of it.
Respond(r, hv, full, keep) ==
    /\ pc[r] = "dispatch"
    /\ keep \subseteq {c \in Copies : IsLive(ext[r][c])}
    /\ conc => (keep = {} /\ ~full)
    /\ layers = 0 => ~full
    /\ LET resp == [kind |-> "response", status |-> 200, vary |-> hv, full |-> full]
           gone == Copies \ keep
           ch   == DropChan(chan[r], ext[r], gone)
       IN /\ hresp' = [hresp EXCEPT ![r] = resp]
          /\ ext' = [ext EXCEPT ![r] = DropExt(@, gone)]
          /\ chan' = [chan EXCEPT ![r] = ch]
          /\ IF layers = 0
             THEN /\ pc' = [pc EXCEPT ![r] = "done"]
                  /\ result' = [result EXCEPT ![r] = resp]
                  /\ UNCHANGED observed
             ELSE Continue(r, resp, ch)
    /\ UNCHANGED <<layers, serving, conc, ran, again>>
    /\ UNCHANGED <<reqVars, sideVars>>

\* The middleware future is woken while it waits in join_all.
Poll(r) ==
    /\ pc[r] = "drain"
    /\ Resolved(chan[r]) # observed[r]
    /\ Continue(r, hresp[r], chan[r])
    /\ UNCHANGED <<layers, serving, conc, ext, chan, ran, again, hresp>>
    /\ UNCHANGED <<reqVars, sideVars>>

\* Variant: the error of the inner service is turned into a response and
\* goes through the drain and merge steps.
InnerErrorMerged(r) ==
    /\ pc[r] = "dispatch"
    /\ pc' = [pc EXCEPT ![r] = "failed"]
    /\ observed' = [observed EXCEPT ![r] = Resolved(chan[r])]
    /\ result' = [result EXCEPT ![r] = Merge(ErrorResponse, chan[r])]
    /\ ext' = [ext EXCEPT ![r] = DropExt(@, Copies)]
    /\ chan' = [chan EXCEPT ![r] = [k \in Kinds |-> IF @[k] = "armed" THEN "closed" ELSE @[k]]]
    /\ UNCHANGED <<layers, serving, conc, ran, again, hresp>>
    /\ UNCHANGED <<reqVars, sideVars>>

\* future.await yields Err(e): the ? operator returns it.
InnerError(r) ==
    /\ pc[r] = "dispatch"
    /\ pc' = [pc EXCEPT ![r] = "failed"]
    /\ result' = [result EXCEPT ![r] = [NoResponse EXCEPT !.kind = "inner-error"]]
    /\ ext' = [ext EXCEPT ![r] = DropExt(@, Copies)]
    /\ chan' = [chan EXCEPT ![r] = [k \in Kinds |-> IF @[k] = "armed" THEN "closed" ELSE @[k]]]
    /\ UNCHANGED <<layers, serving, conc, ran, again, hresp, observed>>
    /\ UNCHANGED <<reqVars, sideVars>>

\* The middleware future is dropped while it awaits the inner future.
Cancel(r) ==
    /\ pc[r] = "dispatch"
    /\ pc' = [pc EXCEPT ![r] = "cancelled"]
    /\ ext' = [ext EXCEPT ![r] = DropExt(@, Copies)]
    /\ chan' = [chan EXCEPT ![r] = [k \in Kinds |-> IF @[k] = "armed" THEN "closed" ELSE @[k]]]
    /\ UNCHANGED <<layers, serving, conc, ran, again, hresp, observed, result>>
    /\ UNCHANGED <<reqVars, sideVars>>

\* The slot takes the next request of the same service.
NextRequest(r) ==
    /\ pc[r] \in {"done", "failed", "cancelled", "panicked"}
    /\ pc' = [pc EXCEPT ![r] = "idle"]
    /\ ext' = [ext EXCEPT ![r] = [c \in Copies |-> Dropped]]
    /\ chan' = [chan EXCEPT ![r] = [k \in Kinds |-> "none"]]
    /\ ran' = [ran EXCEPT ![r] = {}]
    /\ again' = [again EXCEPT ![r] = FALSE]
    /\ hresp' = [hresp EXCEPT ![r] = NoResponse]
    /\ observed' = [observed EXCEPT ![r] = {}]
    /\ result' = [result EXCEPT ![r] = NoResponse]
    /\ hdrs' = [hdrs EXCEPT ![r] = NoHeaders]
    /\ got' = [got EXCEPT ![r] = NotExtracted]
    /\ fut' = [fut EXCEPT ![r] = NoFuture]
    /\ other' = [other EXCEPT ![r] = {}]
    /\ UNCHANGED <<layers, serving, conc, guard, res, last>>

\* HxRequestGuardLayer::layer, while the router is being built.
GuardLayer(p) ==
    /\ ~serving
    /\ ~guard.installed
    /\ guard' = [installed |-> TRUE, redirect_to |-> p, hx_request |-> FALSE]
    /\ UNCHANGED <<layers, serving, conc, pc, ext, chan, ran, again, hresp, observed, result>>
    /\ UNCHANGED <<reqVars, fut, res, last>>

\* HxRequestGuard::call
GuardCall(r, h) ==
    /\ serving
    /\ guard.installed
    /\ pc[r] = "idle"
    /\ LET flag == guard.hx_request \/ h[1] # "absent" IN
        /\ guard' = [guard EXCEPT !.hx_request = flag]
        /\ fut' = [fut EXCEPT ![r] = [pending |-> TRUE, hx_request |-> flag,
                                      redirect_to |-> guard.redirect_to]]
    /\ hdrs' = [hdrs EXCEPT ![r] = h]
    /\ pc' = [pc EXCEPT ![r] = "dispatch"]
    /\ UNCHANGED <<layers, serving, conc, ext, chan, ran, again, hresp, observed, result>>
    /\ UNCHANGED <<got, other, res, last>>

\* ResponseFuture::poll when the inner future is ready with Ok(response).
GuardReady(r, hv) ==
    /\ pc[r] = "dispatch"
    /\ fut[r].pending
    /\ LET resp == [kind |-> "response", status |-> 200, vary |-> hv, full |-> FALSE] IN
        /\ hresp' = [hresp EXCEPT ![r] = resp]
        /\ result' = [result EXCEPT ![r] =
                         IF fut[r].hx_request THEN resp ELSE Redirect(fut[r].redirect_to)]
    /\ pc' = [pc EXCEPT ![r] = "done"]
    /\ fut' = [fut EXCEPT ![r].pending = FALSE]
    /\ UNCHANGED <<layers, serving, conc, ext, chan, ran, again, observed>>
    /\ UNCHANGED <<reqVars, guard, res, last>>

\* ResponseFuture::poll when the inner future is ready with Err(e).
GuardError(r) ==
    /\ pc[r] = "dispatch"
    /\ fut[r].pending
    /\ result' = [result EXCEPT ![r] = [NoResponse EXCEPT !.kind = "inner-error"]]
    /\ pc' = [pc EXCEPT ![r] = "failed"]
    /\ fut' = [fut EXCEPT ![r].pending = FALSE]
    /\ UNCHANGED <<layers, serving, conc, ext, chan, ran, again, hresp, observed>>
    /\ UNCHANGED <<reqVars, guard, res, last>>

\* A handler starts from a response that holds the Vary occurrences hv.
NewParts(hv, full) ==
    /\ res' = [NoParts EXCEPT !.vary = hv, !.base = hv, !.full = full]
    /\ last' = NoResponder
    /\ UNCHANGED <<layers, serving, conc, pc, ext, chan, ran, again, hresp, observed, result>>
    /\ UNCHANGED <<reqVars, guard, fut>>

\* trigger.rs, HxResponseTrigger::into_response_parts
HxResponseTrigger(events, order) ==
    /\ ~res.err
    /\ order \in Orders(NamesIn(events))
    /\ res' = TriggerInto(res, events, order)
    /\ last' = [op |-> "HxResponseTrigger", events |-> events]
    /\ UNCHANGED <<layers, serving, conc, pc, ext, chan, ran, again, hresp, observed, result>>
    /\ UNCHANGED <<reqVars, guard, fut>>

\* trigger.rs, HxResponseTriggerAfterSettle::into_response_parts
HxResponseTriggerAfterSettle(events, order) ==
    /\ ~res.err
    /\ order \in Orders(NamesIn(events))
    /\ res' = TriggerInto(res, events, order)
    /\ last' = [op |-> "HxResponseTriggerAfterSettle", events |-> events]
    /\ UNCHANGED <<layers, serving, conc, pc, ext, chan, ran, again, hresp, observed, result>>
    /\ UNCHANGED <<reqVars, guard, fut>>

\* trigger.rs, HxResponseTriggerAfterSwap::into_response_parts
HxResponseTriggerAfterSwap(events, order) ==
    /\ ~res.err
    /\ order \in Orders(NamesIn(events))
    /\ res' = TriggerInto(res, events, order)
    /\ last' = [op |-> "HxResponseTriggerAfterSwap", events |-> events]
    /\ UNCHANGED <<layers, serving, conc, pc, ext, chan, ran, again, hresp, observed, result>>
    /\ UNCHANGED <<reqVars, guard, fut>>

\* VaryHxRequest, VaryHxTarget, VaryHxTrigger or VaryHxTriggerName is applied.
VaryResponder(k) ==
    /\ ~res.err
    /\ k \notin res.by
    /\ res' = TryAppendVary(res, k)
    /\ last' = [op |-> "Vary", kind |-> k]
    /\ UNCHANGED <<layers, serving, conc, pc, ext, chan, ran, again, hresp, observed, result>>
    /\ UNCHANGED <<reqVars, guard, fut>>

\* HxLocation::into_response_parts
HxLocation(uri, options) ==
    /\ ~res.err
    /\ res' = InsertHeader(res, "hx_location", into_header_with_options(uri, options))
    /\ last' = [op |-> "HxLocation", uri |-> uri, options |-> options]
    /\ UNCHANGED <<layers, serving, conc, pc, ext, chan, ran, again, hresp, observed, result>>
    /\ UNCHANGED <<reqVars, guard, fut>>

Next ==
    \/ Layer
    \/ Serve
    \/ \E r \in Reqs : Call(r, HtmxRequest)
    \/ \E r \in Reqs, c \in Copies, k \in Kinds : Extract(r, c, k)
    \/ \E r \in Reqs, c \in Copies, d \in Copies : Clone(r, c, d)
    \/ \E r \in Reqs, c \in Copies : DropCopy(r, c)
    \/ \E r \in Reqs, hv \in HandlerVaries, full \in BOOLEAN, keep \in SUBSET Copies :
           Respond(r, hv, full, keep)
    \/ \E r \in Reqs : Poll(r)
    \/ \E r \in Reqs : InnerError(r)
    \/ \E r \in Reqs : Cancel(r)
    \/ \E r \in Reqs : NextRequest(r)

Spec == Init /\ [][Next]_vars

\* Two requests in flight at once on the same service; their handlers do
\* not clone the storage nor move it out of the inner future.
NextConc ==
    \/ Layer
    \/ Serve
    \/ \E r \in Reqs : Call(r, HtmxRequest)
    \/ \E r \in Reqs, k \in Kinds : Extract(r, 0, k)
    \/ \E r \in Reqs : DropCopy(r, 0)
    \/ \E r \in Reqs, hv \in HandlerVaries : Respond(r, hv, FALSE, {})
    \/ \E r \in Reqs : InnerError(r)
    \/ \E r \in Reqs : Cancel(r)
    \/ \E r \in Reqs : NextRequest(r)

SpecConc == InitConc /\ [][NextConc]_vars

\* One request at a time with any headers, through zero or more layers of
\* the middleware; the handler runs extractors on the Parts it was given.
NextExtract ==
    \/ Layer
    \/ Serve
    \/ \E r \in Reqs, h \in RequestHeaders : Call(r, h)
    \/ \E r \in Reqs, k \in Kinds : Extract(r, 0, k)
    \/ \E r \in Reqs : ExtractRequestRs(r)
    \/ \E r \in Reqs : Respond(r, <<>>, FALSE, {})
    \/ \E r \in Reqs : NextRequest(r)

SpecExtract == Init /\ [][NextExtract]_vars

\* One request at a time whose extensions already hold unrelated values when
\* it reaches the outermost middleware.
NextInstall ==
    \/ Layer
    \/ Serve
    \/ \E r \in Reqs, t \in Unrelated : InsertUnrelated(r, t)
    \/ \E r \in Reqs : Call(r, HtmxRequest)
    \/ \E r \in Reqs, k \in Kinds : Extract(r, 0, k)
    \/ \E r \in Reqs, hv \in HandlerVaries : Respond(r, hv, FALSE, {})
    \/ \E r \in Reqs : NextRequest(r)

SpecInstall == Init /\ [][NextInstall]_vars

\* One request at a time through zero or more layers of the middleware; the
\* handler runs tracked and untracked extractors.
NextUntracked ==
    \/ Layer
    \/ Serve
    \/ \E r \in Reqs : Call(r, HtmxRequest)
    \/ \E r \in Reqs, k \in Kinds : Extract(r, 0, k)
    \/ \E r \in Reqs, x \in Untracked, s \in HeaderStates : ExtractUntracked(r, x, s)
    \/ \E r \in Reqs, hv \in HandlerVaries : Respond(r, hv, FALSE, {})
    \/ \E r \in Reqs : NextRequest(r)

SpecUntracked == Init /\ [][NextUntracked]_vars

\* The Vary responders a handler of the served router returns.
HandlerResponders == {1, 3}

\* One request at a time through the middleware; the handler runs tracked
\* extractors and returns the response it built with Vary responders.
NextHandler ==
    \/ Layer
    \/ Serve
    \/ \E r \in Reqs : Call(r, HtmxRequest)
    \/ \E r \in Reqs, k \in Kinds : Extract(r, 0, k)
    \/ NewParts(<<>>, FALSE)
    \/ \E k \in HandlerResponders : VaryResponder(k)
    \/ \E r \in Reqs : Respond(r, res.vary, FALSE, {})
    \/ \E r \in Reqs : NextRequest(r)

SpecHandler == Init /\ [][NextHandler]_vars

\* A router behind one HxRequestGuard; the inner service is any service.
NextGuard ==
    \/ \E p \in RedirectTargets : GuardLayer(p)
    \/ Serve
    \/ \E r \in Reqs, h \in GuardRequests : GuardCall(r, h)
    \/ \E r \in Reqs, hv \in HandlerVaries : GuardReady(r, hv)
    \/ \E r \in Reqs : GuardError(r)
    \/ \E r \in Reqs : NextRequest(r)

SpecGuard == Init /\ [][NextGuard]_vars

\* A handler applies trigger responders to its response.
NextTrigger ==
    \/ NewParts(<<>>, FALSE)
    \/ \E ev \in EventLists, o \in Orders(EventNames) \cup Orders({"foo"})
                                 \cup Orders({"bar"}) \cup Orders({}) :
           \/ HxResponseTrigger(ev, o)
           \/ HxResponseTriggerAfterSettle(ev, o)
           \/ HxResponseTriggerAfterSwap(ev, o)

SpecTrigger == Init /\ [][NextTrigger]_vars

\* A handler applies Vary responders to its response.
NextVaryParts ==
    \/ \E hv \in HandlerVaries, full \in BOOLEAN : NewParts(hv, full)
    \/ \E k \in Kinds : VaryResponder(k)

SpecVaryParts == Init /\ [][NextVaryParts]_vars

\* A handler applies HxLocation to its response.
NextLocation ==
    \/ NewParts(<<>>, FALSE)
    \/ \E uri \in Uris, options \in LocationOptions : HxLocation(uri, options)

SpecLocation == Init /\ [][NextLocation]_vars

\* ------------------------------------------------------------ properties

\* The names of the kinds in S, in the fixed order hx-request, hx-target,
\* hx-trigger, hx-trigger-name.
NamesOf(S) ==
    (IF 1 \in S THEN <<"hx-request">> ELSE <<>>)
    \o (IF 2 \in S THEN <<"hx-target">> ELSE <<>>)
    \o (IF 3 \in S THEN <<"hx-trigger">> ELSE <<>>)
    \o (IF 4 \in S THEN <<"hx-trigger-name">> ELSE <<>>)

\* The Vary occurrences expected on a response whose handler set hv and for
\* which the extractors of the kinds in S count as used.
ExpectedVary(hv, S) == IF S = {} THEN hv ELSE Append(hv, Join(NamesOf(S)))

Fired(r) == {k \in Kinds : chan[r][k] = "sent"}

Returned(r) == pc[r] = "done" /\ result[r].kind = "response"

ConfigErrorRaised == \E r \in Reqs : pc[r] = "panicked"

\* C1: for a request handled through the middleware in which the extractors
\* of a non-empty set S ran, the response the middleware returns with the
\* Vary value merged carries, after the handler's own Vary values, exactly
\* the names of S joined with ", " in the fixed order.
C1_VaryIsCanonicalOfRan ==
    \A r \in Reqs :
        (layers >= 1 /\ Returned(r) /\ ran[r] # {} /\ ~hresp[r].full)
            => result[r].vary = ExpectedVary(hresp[r].vary, ran[r])

\* C2: when no tracked extractor ran, the response the middleware returns
\* is the handler's response, with exactly the handler's Vary occurrences.
C2_NoExtractorNoVary ==
    \A r \in Reqs :
        (layers >= 1 /\ pc[r] = "done" /\ ran[r] = {})
            => (result[r] = hresp[r] /\ result[r].vary \in HandlerVaries)

C2_Witness ==
    \E r \in Reqs :
        /\ layers = 1 /\ pc[r] = "done" /\ ran[r] = {}
        /\ result[r].vary = <<"accept-encoding", "hx-request">>

\* C3: once an extractor has run for a request, its cell is Fired and stays
\* Fired for the rest of the request, however many times it runs again, and
\* the returned response names the header exactly once.
C3_FiredOnceNotified ==
    \A r \in Reqs : \A k \in ran[r] :
        /\ (layers >= 1 /\ pc[r] \in {"dispatch", "drain", "done"})
              => chan[r][k] = "sent"
        /\ (layers >= 1 /\ Returned(r) /\ ~hresp[r].full)
              => /\ Len(result[r].vary) = Len(hresp[r].vary) + 1
                 /\ result[r].vary[Len(result[r].vary)] = Join(NamesOf(Fired(r)))
                 /\ k \in Fired(r)

\* C4 as stated: with handler Vary values present and a cell fired, every
\* returned response keeps them and has one further occurrence.
C4_AlwaysAppended ==
    \A r \in Reqs :
        (layers >= 1 /\ pc[r] = "done" /\ hresp[r].vary # <<>> /\ Fired(r) # {})
            => /\ Len(result[r].vary) = Len(hresp[r].vary) + 1
               /\ SubSeq(result[r].vary, 1, Len(hresp[r].vary)) = hresp[r].vary

\* C4 amended: with handler Vary values present and a cell fired, if the
\* append to the response headers succeeds the returned response keeps every
\* handler occurrence in place and has exactly one further occurrence, the
\* computed value; if the append fails the response is the internal error.
C4_AppendedUnlessMergeFails ==
    \A r \in Reqs :
        (layers >= 1 /\ pc[r] = "done" /\ hresp[r].vary # <<>> /\ Fired(r) # {})
            => IF hresp[r].full
               THEN result[r].status = 500 /\ result[r].vary = <<>>
               ELSE /\ Len(result[r].vary) = Len(hresp[r].vary) + 1
                    /\ SubSeq(result[r].vary, 1, Len(hresp[r].vary)) = hresp[r].vary
                    /\ result[r].vary[Len(result[r].vary)] = Join(NamesOf(Fired(r)))
                    /\ result[r].status = hresp[r].status

C4_Witness ==
    \E r \in Reqs :
        /\ layers = 1 /\ pc[r] = "done" /\ ~hresp[r].full
        /\ hresp[r].vary = <<"accept-encoding", "hx-request">>
        /\ result[r].vary = <<"accept-encoding", "hx-request", "hx-request, hx-trigger">>

\* C5: on a doubly wrapped path a request never gets past the setup of the
\* second middleware: it panics there, the inner handler is never invoked
\* (no extractor runs, no response from the inner service) and nothing is
\* returned for the request.
C5_DoubleUseIsFatal ==
    \A r \in Reqs :
        layers >= 2
            => /\ pc[r] \in {"idle", "panicked"}
               /\ ran[r] = {}
               /\ hresp[r] = NoResponse
               /\ result[r] = NoResponse
               /\ \A c \in Copies : ~IsLive(ext[r][c])

C5_Witness ==
    \E r \in Reqs : layers >= 2 /\ pc[r] = "panicked" /\ result[r] = NoResponse

\* C6 as stated: once the layer is installed a second time the
\* configuration error has been raised.
C6_RaisedAtInstallation == layers >= 2 => ConfigErrorRaised

\* C6 amended: installing the layers raises nothing and changes no request;
\* the configuration error is raised by the first step of a request that
\* enters the doubly wrapped path, and only by such a step.
C6_RaisedAtFirstRequest ==
    [][ /\ layers' # layers => (pc' = pc /\ ~ConfigErrorRaised')
        /\ \A r \in Reqs :
              /\ (pc[r] = "idle" /\ pc'[r] # "idle" /\ layers >= 2)
                    => pc'[r] = "panicked"
              /\ (pc[r] # "panicked" /\ pc'[r] = "panicked")
                    => (pc[r] = "idle" /\ serving /\ layers >= 2)
      ]_vars

C6_Witness == layers = 2 /\ serving /\ pc[First] = "panicked"

\* C7: once the inner handler has produced its response, no receiver of a
\* cell whose extractor never ran is left pending: the middleware is not
\* suspended in its drain step on a writer that was never invoked.
C7_DrainNeverWaits ==
    \A r \in Reqs : \A k \in Kinds :
        (hresp[r] # NoResponse /\ layers >= 1 /\ k \notin ran[r])
            => (k \in observed[r] /\ chan[r][k] = "closed")

\* C8: when the inner service returned an error or the request was
\* cancelled during dispatch, no receiver was observed, no Vary value was
\* computed, and what is returned is the inner error as it was (nothing at
\* all for a cancelled request).
C8_ErrorSkipsDrain ==
    \A r \in Reqs :
        pc[r] \in {"failed", "cancelled"}
            => /\ observed[r] = {}
               /\ hresp[r] = NoResponse
               /\ result[r].vary = <<>>
               /\ result[r].kind = (IF pc[r] = "failed" THEN "inner-error" ELSE "none")

C8_Witness ==
    \E r \in Reqs :
        /\ layers = 1 /\ pc[r] = "failed" /\ Fired(r) = {1, 3}
        /\ result[r].kind = "inner-error"

\* C9: with two requests in flight on one service, a request starts with
\* its four cells armed, an extractor that runs for one request changes
\* neither the storage nor the cells of the other, and the Vary value of
\* each response is the one of the extractors that ran for that request.
C9_PerRequestCells ==
    [][ \A r \in Reqs :
          /\ (pc[r] = "idle" /\ pc'[r] = "dispatch" /\ layers >= 1)
                => (chan'[r] = [k \in Kinds |-> "armed"] /\ ext'[r][0] = Inserted)
          /\ (ran'[r] # ran[r] /\ pc'[r] = pc[r])
                => \A q \in Reqs \ {r} : chan'[q] = chan[q] /\ ext'[q] = ext[q]
          /\ (layers >= 1 /\ pc'[r] = "done")
                => result'[r].vary = ExpectedVary(hresp'[r].vary, ran'[r])
      ]_vars

C9_Witness ==
    /\ conc /\ layers = 1
    /\ pc["A"] = "done" /\ pc["B"] = "dispatch"
    /\ ran["A"] = {1} /\ result["A"].vary = <<"hx-request">>
    /\ ran["B"] = {2, 4} /\ Fired("B") = {2, 4}

\* C10: without the middleware on the pipeline the storage of a request
\* never holds a writer, a tracked extractor that runs changes neither the
\* storage nor the phase of the request, no request fails, and the response
\* returned is the handler's with no Vary value added.
C10_InertWithoutMiddleware ==
    [][ layers = 0 =>
          \A r \in Reqs :
            /\ \A c \in Copies : ext'[r][c] \in {NoWriters, Dropped}
            /\ chan'[r] = [k \in Kinds |-> "none"]
            /\ ((ran'[r] # ran[r] \/ again'[r] # again[r]) /\ pc[r] = "dispatch")
                  => (ext'[r] = ext[r] /\ pc'[r] = pc[r] /\ result'[r] = result[r])
            /\ pc'[r] # "panicked"
            /\ pc'[r] = "done" => result'[r] = hresp'[r]
      ]_vars

C10_Witness ==
    \E r \in Reqs :
        /\ layers = 0 /\ pc[r] = "done" /\ ran[r] = Kinds /\ again[r]
        /\ result[r].vary = <<>> /\ result[r].status = 200

\* C11: the value a tracked extractor returned is the one its header alone
\* gives (presence for HxRequest, Some(text) or None for the other three),
\* whether the middleware installed a notifier or not and whether the
\* notifier it found still held its sender or not; every run of the
\* extractor returned a value.
C11_ValueFromHeadersOnly ==
    \A r \in Reqs :
        /\ 1 \in ran[r] =>
              got[r][1] = (IF hdrs[r][1] = "absent" THEN "HxRequest(false)"
                                                     ELSE "HxRequest(true)")
        /\ 2 \in ran[r] =>
              got[r][2] = (IF hdrs[r][2] = "text" THEN "HxTarget(Some(#list))"
                                                   ELSE "HxTarget(None)")
        /\ 3 \in ran[r] =>
              got[r][3] = (IF hdrs[r][3] = "text" THEN "HxTrigger(Some(save-button))"
                                                   ELSE "HxTrigger(None)")
        /\ 4 \in ran[r] =>
              got[r][4] = (IF hdrs[r][4] = "text" THEN "HxTriggerName(Some(save))"
                                                   ELSE "HxTriggerName(None)")

\* HxTarget ran twice under the middleware, the second time on a notifier
\* whose sender was already taken, and returned the header's text.
C11_Witness ==
    /\ layers = 1 /\ pc[First] = "dispatch" /\ again[First]
    /\ ran[First] = {2} /\ ext[First][0][2] = "none" /\ chan[First][2] = "sent"
    /\ hdrs[First][2] = "text" /\ hdrs[First][1] = "absent"
    /\ got[First][2] = "HxTarget(Some(#list))"

\* C12: when a cell fired and the append of the computed value to the
\* response headers fails, the request still completes (no panic) and what
\* the middleware returns is the internal-error response, status 500, not
\* the handler's response with or without its Vary values.
C12_MergeFailureIsInternalError ==
    \A r \in Reqs :
        (layers >= 1 /\ hresp[r].full /\ Fired(r) # {} /\ pc[r] \notin {"dispatch", "drain"})
            => /\ pc[r] = "done"
               /\ result[r].kind = "response"
               /\ result[r].status = 500
               /\ result[r] # hresp[r]
               /\ result[r].vary = <<>>

C12_Witness ==
    \E r \in Reqs :
        /\ layers = 1 /\ pc[r] = "done" /\ Fired(r) = {2}
        /\ hresp[r].full /\ hresp[r].status = 200
        /\ hresp[r].vary = <<"accept-encoding", "hx-request">>
        /\ result[r].status = 500

\* C13: a request the guard has finished with a response got the redirect
\* (303, Location = the configured redirect_to) when it did not carry the
\* HX-Request header, and the inner service's response unchanged when it did,
\* whatever requests the same service instance handled before.
C13_RedirectsWithoutHeader ==
    \A r \in Reqs :
        (guard.installed /\ pc[r] = "done")
            => IF hdrs[r][1] = "absent"
               THEN /\ result[r].status = 303
                    /\ result[r] = Redirect(guard.redirect_to)
               ELSE result[r] = hresp[r]

\* The values a list of events may be encoded as, over the iteration orders
\* of the map.
Encodings(events) == {events_to_header_value(events, o) : o \in Orders(NamesIn(events))}

\* C14: a trigger responder applied with a non-empty list leaves its events
\* under its own header: HX-Trigger for HxResponseTrigger,
\* HX-Trigger-After-Settle for HxResponseTriggerAfterSettle and
\* HX-Trigger-After-Swap for HxResponseTriggerAfterSwap.
C14_EachWritesOwnHeader ==
    (last.op \in {"HxResponseTrigger", "HxResponseTriggerAfterSettle",
                  "HxResponseTriggerAfterSwap"} /\ last.events # <<>>)
        => /\ last.op = "HxResponseTrigger"
                => res.hx_trigger \in Encodings(last.events)
           /\ last.op = "HxResponseTriggerAfterSettle"
                => res.hx_trigger_after_settle \in Encodings(last.events)
           /\ last.op = "HxResponseTriggerAfterSwap"
                => res.hx_trigger_after_swap \in Encodings(last.events)

VaryValues(seq) == {seq[i] : i \in DOMAIN seq}

\* C15 as stated: whatever Vary responders were applied to a response, in
\* whatever order, its Vary occurrences are the ones it had before plus one
\* per responder applied, and their set is the set of the header names.
C15_VarySetIsResponders ==
    /\ Len(res.vary) = Len(res.base) + Cardinality(res.by)
    /\ VaryValues(res.vary) = VaryValues(res.base) \cup {HeaderStr[k] : k \in res.by}

\* C15 amended: as long as every append succeeded, the response keeps the
\* Vary occurrences it had, in place, followed by one occurrence per
\* responder applied, and their set is the set of the header names; once an
\* append has failed the response is the internal error and has no Vary
\* value at all.
C15_VarySetUnlessAppendFails ==
    IF res.err
    THEN res.vary = <<>> /\ res.by # {} /\ res.hx_location = Unset
    ELSE /\ Len(res.vary) = Len(res.base) + Cardinality(res.by)
         /\ SubSeq(res.vary, 1, Len(res.base)) = res.base
         /\ VaryValues(res.vary) = VaryValues(res.base) \cup {HeaderStr[k] : k \in res.by}

C15_Witness ==
    /\ ~res.err /\ res.by = {1, 2}
    /\ res.base = <<"accept-encoding", "hx-request">>
    /\ res.vary = <<"accept-encoding", "hx-request", "hx-target", "hx-request">>

\* The member of the JSON object for event name n: its name as the key and,
\* as the value, the data of the event so named (the last one when the name
\* is repeated), null when that event carries none.
Member(events, n) ==
    LET I == {i \in DOMAIN events : events[i].name = n}
        i == CHOOSE i \in I : \A j \in I : j <= i
    IN "\"" \o n \o "\":" \o (IF events[i].data = "None" THEN "null" ELSE events[i].data)

RECURSIVE Members(_, _)
Members(events, keys) ==
    IF keys = <<>> THEN ""
    ELSE IF Len(keys) = 1 THEN Member(events, keys[1])
    ELSE Member(events, keys[1]) \o "," \o Members(events, Tail(keys))

\* C16: the value a non-empty list of events is encoded as is, when no event
\* carries data, the event names joined with ", " in input order, and when
\* at least one does, a JSON object with exactly one member per event name,
\* holding that event's data, null for an event without data.
C16_EventsEncoding ==
    (last.op \in {"HxResponseTrigger", "HxResponseTriggerAfterSettle",
                  "HxResponseTriggerAfterSwap"} /\ last.events # <<>>)
        => LET ev == last.events IN
           IF \A i \in DOMAIN ev : ev[i].data = "None"
           THEN res.hx_trigger = Join([i \in DOMAIN ev |-> ev[i].name])
           ELSE \E keys \in Orders(NamesIn(ev)) :
                    res.hx_trigger = "{" \o Members(ev, keys) \o "}"

\* Two events, the first without data: a JSON object with a null member.
C16_Witness ==
    /\ last.op = "HxResponseTrigger"
    /\ last.events = <<[name |-> "foo", data |-> "None"], [name |-> "bar", data |-> "1"]>>
    /\ res.hx_trigger = "{\"foo\":null,\"bar\":1}"

\* C17: the HX-Location value is the bare URI when no option is set, and
\* otherwise a JSON object whose first member is "path" with the URI,
\* followed by one member for each option that is set, in the order of the
\* fields, and none for an option that is not set.
C17_LocationEncoding ==
    last.op = "HxLocation" =>
        LET o == last.options
            member(f) == IF o[f] THEN ",\"" \o f \o "\":" \o OptionJson[f] ELSE ""
        IN IF \A f \in DOMAIN o : ~o[f]
           THEN res.hx_location = last.uri
           ELSE res.hx_location =
                    "{\"path\":\"" \o last.uri \o "\""
                    \o member("source") \o member("event") \o member("handler")
                    \o member("target") \o member("swap") \o member("values")
                    \o member("headers") \o "}"

\* The case of tests::test_serialize_location: event and swap set.
C17_Witness ==
    /\ last.op = "HxLocation" /\ last.uri = "/foo"
    /\ {f \in DOMAIN last.options : last.options[f]} = {"event", "swap"}
    /\ res.hx_location = "{\"path\":\"/foo\",\"event\":\"click\",\"swap\":\"innerHTML\"}"

\* C18: whenever an HxRequest extractor has run for a request, that of
\* extractors.rs or that of request.rs, what it returned is HxRequest(true)
\* if the request carries the HX-Request header and HxRequest(false) if not.
C18_ReportsPresence ==
    \A r \in Reqs : \A x \in {1, RequestRs} :
        got[r][x] # ""
            => got[r][x] = (IF hdrs[r][1] = "absent" THEN "HxRequest(false)"
                                                      ELSE "HxRequest(true)")

\* C19: a tracked extractor that runs during dispatch and finds the writer
\* half of its kind in the storage it was given (the original or a copy)
\* leaves the cell Fired, and when the request then completes with the
\* computed value appended, that value names the header.
C19_FoundWriterFires ==
    [][ \A r \in Reqs : \A k \in Kinds :
          /\ \A c \in Copies :
                (pc[r] = "dispatch" /\ ext[r][c][k] = "some" /\ ext'[r][c][k] = "none")
                    => chan'[r][k] = "sent"
          /\ ( /\ layers >= 1 /\ pc[r] = "dispatch" /\ pc'[r] = "done"
               /\ ~hresp'[r].full
               /\ \E c \in Copies : ext[r][c][k] = "none" )
                => \E S \in SUBSET Kinds :
                      /\ k \in S
                      /\ result'[r].vary = Append(hresp'[r].vary, Join(NamesOf(S)))
      ]_vars

\* C20: within one request handled through the middleware, the four cells
\* are installed, armed, by the step that hands the request to the inner
\* handler, and nothing of the handler (no extractor, no response) comes
\* before it; a cell is observed only once the handler has produced its
\* response; and a cell that has been observed is never written again.
C20_PhasesOrdered ==
    [][ \A r \in Reqs :
          /\ (layers = 1 /\ pc[r] = "idle" /\ pc'[r] # "idle")
                => /\ pc'[r] = "dispatch"
                   /\ chan'[r] = [k \in Kinds |-> "armed"]
                   /\ ext'[r][0] = Inserted
                   /\ ran'[r] = {} /\ hresp'[r] = NoResponse /\ observed'[r] = {}
          /\ (layers = 1 /\ (ran'[r] # ran[r] \/ hresp'[r] # hresp[r]) /\ pc'[r] # "idle")
                => (pc[r] \in {"dispatch", "drain"} /\ \A k \in Kinds : chan[r][k] # "none")
          /\ observed'[r] # {} => hresp'[r] # NoResponse
          /\ pc'[r] # "idle" =>
                \A k \in observed[r] : (k \in observed'[r] /\ chan'[r][k] = chan[r][k])
      ]_vars

\* A request that went through the three phases: two extractors ran, every
\* cell was observed, the value was merged.
C20_Witness ==
    /\ layers = 1 /\ pc[First] = "done" /\ ran[First] = {1, 3}
    /\ observed[First] = Kinds /\ Fired(First) = {1, 3}
    /\ result[First].vary = <<"hx-request, hx-trigger">>

\* C21: the observation of a cell gives true exactly when an extractor of its
\* kind ran before it, and false when the writer was dropped without one;
\* when the request completes with the value appended, the value names the
\* kinds observed true and no other, a cell whose writer was dropped counting
\* as one never used.
C21_ObservedIffFired ==
    [][ \A r \in Reqs :
          /\ \A k \in Kinds :
                (k \notin observed[r] /\ k \in observed'[r])
                    => /\ (chan'[r][k] = "sent") <=> (k \in ran'[r])
                       /\ (chan'[r][k] = "closed") <=> (k \notin ran'[r])
          /\ (layers >= 1 /\ pc[r] # "done" /\ pc'[r] = "done" /\ ~hresp'[r].full)
                => result'[r].vary = ExpectedVary(hresp'[r].vary, ran'[r])
      ]_vars

\* C22: when the extractors of one kind ran more than once within a request,
\* on whichever copies of the storage and in whichever order, the cell of
\* that kind is Fired, no step of the request fails, and the value appended
\* to the response names the header once.
C22_RepeatedFireIsFired ==
    \A r \in Reqs : \A k \in Kinds :
        (layers >= 1 /\ ran[r] = {k} /\ again[r])
            => /\ pc[r] \in {"dispatch", "drain", "done"} => chan[r][k] = "sent"
               /\ pc[r] # "panicked"
               /\ (pc[r] = "done" /\ ~hresp[r].full)
                     => result[r].vary = Append(hresp[r].vary, HeaderStr[k])

\* C23: the step that hands a request to the middleware raises the
\* configuration error exactly when the request comes through a second
\* middleware, which finds the notifiers of the first; whatever unrelated
\* values the extensions hold, a request through one middleware gets its
\* four notifiers installed, armed, the unrelated values are left as they
\* were, and without the middleware nothing is raised either.
C23_GuardKeysOnNotifierTypes ==
    [][ \A r \in Reqs :
          (pc[r] = "idle" /\ pc'[r] # "idle")
              => /\ pc'[r] = "panicked" <=> layers >= 2
                 /\ layers <= 1 => pc'[r] = "dispatch"
                 /\ layers = 1 =>
                       (ext'[r][0] = Inserted /\ chan'[r] = [k \in Kinds |-> "armed"])
                 /\ other'[r] = other[r]
      ]_vars

\* A request that carried both unrelated values went through one middleware
\* and got its Vary value.
C23_Witness ==
    /\ layers = 1 /\ other[First] = Unrelated /\ pc[First] = "done"
    /\ ran[First] = {1} /\ result[First].vary = <<"hx-request">>

\* C24: a run of HxBoosted, HxCurrentUrl, HxHistoryRestoreRequest or
\* HxPrompt changes no cell, no notifier and no response, and the response
\* the middleware returns has, after the handler's own Vary occurrences,
\* names of tracked extractors that ran and nothing else: no occurrence at
\* all when none ran.
C24_UntrackedAddNothing ==
    [][ \A r \in Reqs :
          /\ (pc'[r] # "idle" /\ \E x \in Untracked : got'[r][x] # got[r][x])
                => /\ chan' = chan /\ ext' = ext /\ ran' = ran
                   /\ hresp' = hresp /\ result' = result
          /\ (layers >= 1 /\ pc'[r] = "done")
                => \E S \in SUBSET ran'[r] :
                       result'[r].vary = ExpectedVary(hresp'[r].vary, S)
      ]_vars

\* The four untracked extractors and HxTarget ran: the value names hx-target.
C24_Witness ==
    /\ layers = 1 /\ pc[First] = "done" /\ ran[First] = {2}
    /\ \A x \in Untracked : got[First][x] # ""
    /\ got[First][6] = "HxBoosted(true)" /\ got[First][9] = "HxPrompt(Some(yes))"
    /\ hresp[First].vary = <<>> /\ result[First].vary = <<"hx-target">>

\* C25: within a request the signal of a cell is delivered only by a notify
\* on the copy that holds the last reference to the sender, which empties
\* that copy; a notify on a copy that is not the last reference empties the
\* copy and sends nothing; and once the signal is delivered no copy holds a
\* sender any more, so there is no second send.
C25_OnlyLastReferenceSends ==
    [][ \A r \in Reqs : \A k \in Kinds :
          /\ (chan[r][k] # "sent" /\ chan'[r][k] = "sent")
                => \E c \in Copies :
                      /\ ext[r][c][k] = "some" /\ ArcCount(ext[r], k) = 1
                      /\ ext'[r][c][k] = "none" /\ ArcCount(ext'[r], k) = 0
          /\ \A c \in Copies :
                (ext[r][c][k] = "some" /\ ext'[r][c][k] = "none" /\ ArcCount(ext[r], k) > 1)
                    => /\ chan[r][k] = "armed" /\ chan'[r][k] = "armed"
                       /\ ArcCount(ext'[r], k) = ArcCount(ext[r], k) - 1
          /\ (chan[r][k] = "sent" /\ pc'[r] # "idle")
                => (chan'[r][k] = "sent" /\ ArcCount(ext'[r], k) = 0)
      ]_vars

\* HxTrigger ran on the clone while the original held its notifier: the
\* clone is emptied and nothing was sent.
C25_Witness ==
    /\ layers = 1 /\ pc[First] = "dispatch" /\ ran[First] = {3}
    /\ ext[First][0][3] = "some" /\ ext[First][1][3] = "none"
    /\ chan[First][3] = "armed"

====
